---------------------------- MODULE Spec2Model ----------------------------
(***************************************************************************)
(* A model of package database's MongoClient (src/mongodb.go): the six     *)
(* public operations GetALL, GetByField, Create, Update, Delete and        *)
(* MatchAndLookup, each of which opens a session, starts a transaction,    *)
(* runs one store command inside mongo.WithSession and ends the session    *)
(* with a deferred EndSession.                                             *)
(*                                                                         *)
(* Go strings whose characters the code inspects (identifiers in hex,      *)
(* the page size, field values) are sequences of one-character strings.    *)
(* Names that are only compared with "" and "_id" are TLA+ strings.        *)
(* A primitive.ObjectID is the number its bytes spell, NilObjectID is 0.   *)
(***************************************************************************)
EXTENDS Integers, Sequences, FiniteSets, TLC

(***************************************************************************)
(* Bounds of the model.                                                    *)
(***************************************************************************)
\* Identifiers the store can hold: 1..MaxId (0 is the zero value).
MaxId == 2
\* Length of an identifier's hex text (24 in the driver, scaled down).
IdHexLen == 3
\* Largest page size a pagination client asks for.
MaxPage == 2

Ids == 1..MaxId
NilObjectID == 0

Min(a, b) == IF a < b THEN a ELSE b
Abs(n) == IF n < 0 THEN -n ELSE n

(***************************************************************************)
(* Text: hexadecimal identifiers and decimal page sizes.                   *)
(***************************************************************************)
HexDigits == <<"0","1","2","3","4","5","6","7","8","9","a","b","c","d","e","f">>
DecDigits == <<"0","1","2","3","4","5","6","7","8","9">>

IsHexDigit(ch) == \E i \in 1..16 : HexDigits[i] = ch
HexVal(ch) == (CHOOSE i \in 1..16 : HexDigits[i] = ch) - 1
IsDecDigit(ch) == \E i \in 1..10 : DecDigits[i] = ch
DecVal(ch) == (CHOOSE i \in 1..10 : DecDigits[i] = ch) - 1

RECURSIVE HexToNat(_)
HexToNat(s) ==
    IF s = <<>> THEN 0
    ELSE 16 * HexToNat(SubSeq(s, 1, Len(s) - 1)) + HexVal(s[Len(s)])

RECURSIVE DecToNat(_)
DecToNat(s) ==
    IF s = <<>> THEN 0
    ELSE 10 * DecToNat(SubSeq(s, 1, Len(s) - 1)) + DecVal(s[Len(s)])

RECURSIVE NatToHex(_, _)
NatToHex(n, len) ==
    IF len = 0 THEN <<>>
    ELSE Append(NatToHex(n \div 16, len - 1), HexDigits[(n % 16) + 1])

\* ObjectID.Hex(): the text a caller passes back as lastID or as an "_id" value.
Hex(id) == NatToHex(id, IdHexLen)

\* primitive.ObjectIDFromHex: a wrong length or a non-hex character is an
\* error, and the identifier returned with the error is NilObjectID.
ObjectIDFromHex(s) ==
    IF Len(s) # IdHexLen \/ \E i \in 1..Len(s) : ~IsHexDigit(s[i])
    THEN [ok |-> FALSE, id |-> NilObjectID]
    ELSE [ok |-> TRUE, id |-> HexToNat(s)]

\* strconv.ParseInt(s, 10, 64): an optional sign and at least one decimal
\* digit; on a syntax error the value returned with the error is 0.
ParseInt(s) ==
    LET signed == Len(s) > 0 /\ s[1] \in {"+", "-"}
        body == IF signed THEN Tail(s) ELSE s
    IN  IF body = <<>> \/ \E i \in 1..Len(body) : ~IsDecDigit(body[i])
        THEN [ok |-> FALSE, n |-> 0]
        ELSE [ok |-> TRUE,
              n |-> IF signed /\ s[1] = "-" THEN 0 - DecToNat(body)
                    ELSE DecToNat(body)]


(***************************************************************************)
(* The store: documents, filters and the commands the operations issue.    *)
(***************************************************************************)
\* Values of the string fields of a document.
Vals == {<<"x">>, <<"y">>}
Collections == {"users", "orders"}
Fields == {"name", "ref"}
\* A stored document: its identifier and two string fields.
Docs == [_id : Ids, name : Vals, ref : Vals]
\* What a caller inserts: the driver adds the "_id".
Records == [name : Vals, ref : Vals]
\* Target types a caller decodes into: "Rec" declares both fields as
\* strings, "Num" declares name as an integer, so that decoding a stored
\* document into it fails.
DataModels == {"Rec", "Num"}

\* A BSON value: an ObjectID, a string, or null (a missing field).
OidVal(id) == [t |-> "oid", oid |-> id, str |-> <<>>]
StrVal(s) == [t |-> "str", oid |-> 0, str |-> s]
NullVal == [t |-> "null", oid |-> 0, str |-> <<>>]

FieldValue(doc, f) ==
    IF f = "_id" THEN OidVal(doc._id)
    ELSE IF f \in Fields THEN StrVal(doc[f])
    ELSE NullVal

\* bson.M{} / bson.M{field: value} / bson.M{field: bson.M{"$gt": value}}
AllFilter == [field |-> "", op |-> "all", val |-> NullVal]
EqFilter(f, v) == [field |-> f, op |-> "eq", val |-> v]
GtFilter(f, v) == [field |-> f, op |-> "gt", val |-> v]

Matches(doc, filter) ==
    LET fv == FieldValue(doc, filter.field)
    IN  CASE filter.op = "all" -> TRUE
          [] filter.op = "eq" -> fv = filter.val
          [] filter.op = "gt" ->
                /\ fv.t = filter.val.t
                /\ fv.t = "oid"
                /\ fv.oid > filter.val.oid

IdsOf(D) == {d._id : d \in D}

\* findOptions.SetSort(bson.D{{"_id", 1}}): ascending by identifier.
RECURSIVE SortAsc(_)
SortAsc(D) ==
    IF D = {} THEN <<>>
    ELSE LET m == CHOOSE d \in D : \A e \in D : d._id <= e._id
         IN  <<m>> \o SortAsc(D \ {m})

\* findOptions.SetLimit(limit): 0 is "no limit"; a negative limit asks for
\* a single batch of at most -limit documents.
ApplyLimit(docs, limit) ==
    IF limit = 0 THEN docs
    ELSE SubSeq(docs, 1, Min(Abs(limit), Len(docs)))

\* The store rejects a command on a namespace with an empty part.
NamespaceOK(db, coll) == db # "" /\ coll \in Collections

\* A command as the store receives it. ctx is the context it was issued
\* with: "ctx", the package's background context, or "sc", the session's.
NoCmd == [kind |-> "none", db |-> "", coll |-> "", filter |-> AllFilter,
          limit |-> 0, idFailed |-> FALSE, ctx |-> "ctx"]
\* A command issued with the session context sc of the WithSession closure.
CmdInSession(kind, db, coll, filter, limit, idFailed) ==
    [kind |-> kind, db |-> db, coll |-> coll, filter |-> filter,
     limit |-> limit, idFailed |-> idFailed, ctx |-> "sc"]

\* Every command is issued with the package's context ctx.
Cmd(kind, db, coll, filter, limit, idFailed) ==
    [kind |-> kind, db |-> db, coll |-> coll, filter |-> filter,
     limit |-> limit, idFailed |-> idFailed, ctx |-> "ctx"]

\* What an operation hands back: nil, one decoded instance, a decoded
\* sequence, or the driver's insert, update or delete result.
NilResult == [kind |-> "nil", docs |-> <<>>, id |-> NilObjectID, n |-> 0,
              partial |-> FALSE]
DocResult(d) == [kind |-> "doc", docs |-> <<d>>, id |-> NilObjectID,
                 n |-> 0, partial |-> FALSE]
\* An instance whose decoding stopped at the first incompatible field.
PartialResult == [kind |-> "doc", docs |-> <<>>, id |-> NilObjectID,
                  n |-> 0, partial |-> TRUE]
DocsResult(ds) == [kind |-> "docs", docs |-> ds, id |-> NilObjectID, n |-> 0,
                   partial |-> FALSE]
InsertResult(id) == [kind |-> "insert", docs |-> <<>>, id |-> id, n |-> 0,
                     partial |-> FALSE]
CountResult(kind, n) == [kind |-> kind, docs |-> <<>>, id |-> NilObjectID,
                         n |-> n, partial |-> FALSE]

\* bson decoding of one document into the caller's target type.
DecodeOK(doc, dataModel) == dataModel = "Rec"
\* cur.All: every document of the cursor must decode.
DecodeAllOK(docs, dataModel) ==
    \A i \in 1..Len(docs) : DecodeOK(docs[i], dataModel)

\* One way an operation's body can end: the command it issued (if any),
\* what it returns, the panic that ended it instead (if any), the store
\* afterwards and the identifiers its collection held when the command ran.
Outcome(cmd, result, err, panic, st) ==
    [cmd |-> cmd, result |-> result, err |-> err, panic |-> panic,
     store |-> st,
     snap |-> IF cmd.kind # "none" /\ NamespaceOK(cmd.db, cmd.coll)
              THEN IdsOf(st[cmd.coll]) ELSE {}]


(***************************************************************************)
(* The bodies of the public operations: everything between createSession   *)
(* and the function's return. Each is the set of ways the body can end     *)
(* for arguments a on store st; the store itself may fail any command.     *)
(***************************************************************************)
GetALL(a, st) ==
    IF a.db = "" /\ a.coll = "" /\ a.lastID = <<>> /\ a.pageSize = <<>>
    THEN {Outcome(NoCmd, NilResult, "ValidationError", "none", st)}
    ELSE
      LET id == ObjectIDFromHex(a.lastID)
          filter == IF a.lastID # <<>> THEN GtFilter("_id", OidVal(id.id))
                    ELSE AllFilter
          limit == ParseInt(a.pageSize)
          cmd == Cmd("find", a.db, a.coll, filter, limit.n,
                     a.lastID # <<>> /\ ~id.ok)
          cur == ApplyLimit(SortAsc({d \in st[a.coll] : Matches(d, filter)}),
                            limit.n)
      IN  \* Find failed: cur is nil and the deferred cur.Close panics.
          {Outcome(cmd, NilResult, "nil", "NilCursor", st)}
          \cup
          IF ~NamespaceOK(a.db, a.coll) THEN {}
          ELSE IF DecodeAllOK(cur, a.dataModel)
               THEN {Outcome(cmd, DocsResult(cur), "nil", "none", st)}
               ELSE {Outcome(cmd, NilResult, "DecodeError", "none", st)}

\* GetByField with the conversion forgotten: the raw text is the "_id" value.
GetByFieldRawId(a, st) ==
    LET filter == EqFilter(a.field, StrVal(a.value))
        cmd == Cmd("findOne", a.db, a.coll, filter, 0, FALSE)
    IN  {Outcome(cmd, NilResult, "StoreError", "none", st)}
        \cup
        IF ~NamespaceOK(a.db, a.coll) THEN {}
        ELSE LET found == {d \in st[a.coll] : Matches(d, filter)}
             IN  IF found = {}
                 THEN {Outcome(cmd, NilResult, "NotFound", "none", st)}
                 ELSE {Outcome(cmd,
                               IF DecodeOK(d, a.dataModel) THEN DocResult(d)
                               ELSE PartialResult,
                               "nil", "none", st) : d \in found}

\* GetByField with SR.Err() left unchecked: an empty lookup hands back the
\* freshly allocated instance with a nil error.
GetByFieldNoDocumentsUnchecked(a, st) ==
    LET id == ObjectIDFromHex(a.value)
        filter == IF a.field = "_id" THEN EqFilter(a.field, OidVal(id.id))
                  ELSE EqFilter(a.field, StrVal(a.value))
        cmd == Cmd("findOne", a.db, a.coll, filter, 0,
                   a.field = "_id" /\ ~id.ok)
    IN  {Outcome(cmd, NilResult, "StoreError", "none", st)}
        \cup
        IF ~NamespaceOK(a.db, a.coll) THEN {}
        ELSE LET found == {d \in st[a.coll] : Matches(d, filter)}
             IN  IF found = {}
                 THEN {Outcome(cmd, PartialResult, "nil", "none", st)}
                 ELSE {Outcome(cmd,
                               IF DecodeOK(d, a.dataModel) THEN DocResult(d)
                               ELSE PartialResult,
                               "nil", "none", st) : d \in found}

GetByField(a, st) ==
    LET id == ObjectIDFromHex(a.value)
        filter == IF a.field = "_id" THEN EqFilter(a.field, OidVal(id.id))
                  ELSE EqFilter(a.field, StrVal(a.value))
        cmd == Cmd("findOne", a.db, a.coll, filter, 0,
                   a.field = "_id" /\ ~id.ok)
    IN  {Outcome(cmd, NilResult, "StoreError", "none", st)}
        \cup
        IF ~NamespaceOK(a.db, a.coll) THEN {}
        ELSE LET found == {d \in st[a.coll] : Matches(d, filter)}
             IN  IF found = {}
                 THEN {Outcome(cmd, NilResult, "NotFound", "none", st)}
                 ELSE \* the error of SR.Decode is dropped: nil either way
                      {Outcome(cmd,
                               IF DecodeOK(d, a.dataModel) THEN DocResult(d)
                               ELSE PartialResult,
                               "nil", "none", st) : d \in found}

\* Identifiers the driver can generate: none that the store already holds.
FreshIds(st) == Ids \ UNION {IdsOf(st[c]) : c \in Collections}

\* Create returning whatever InsertOne assigned to result next to its error.
CreateReturnsResultWithError(a, st) ==
    LET cmd == Cmd("insert", a.db, a.coll, AllFilter, 0, FALSE)
    IN  {Outcome(cmd, InsertResult(NilObjectID), "StoreError", "none", st)}
        \cup
        IF ~NamespaceOK(a.db, a.coll) THEN {}
        ELSE {Outcome(cmd, InsertResult(i), "nil", "none",
                      [st EXCEPT ![a.coll] =
                          @ \cup {[_id |-> i, name |-> a.record.name,
                                   ref |-> a.record.ref]}]) : i \in FreshIds(st)}

Create(a, st) ==
    LET cmd == Cmd("insert", a.db, a.coll, AllFilter, 0, FALSE)
    IN  {Outcome(cmd, NilResult, "StoreError", "none", st)}
        \cup
        IF ~NamespaceOK(a.db, a.coll) THEN {}
        ELSE {Outcome(cmd, InsertResult(i), "nil", "none",
                      [st EXCEPT ![a.coll] =
                          @ \cup {[_id |-> i, name |-> a.record.name,
                                   ref |-> a.record.ref]}]) : i \in FreshIds(st)}

\* bson.M{"$set": patch}: the patch's fields overwrite the document's.
SetFields(d, patch) ==
    [f \in DOMAIN d |-> IF f \in DOMAIN patch THEN patch[f] ELSE d[f]]

\* Update that applies the patch to every document of the collection
\* (the filter left out of the command).
UpdateEveryDocument(a, st) ==
    IF ~a.ID.isOid
    THEN {Outcome(NoCmd, NilResult, "TypeMismatch", "none", st)}
    ELSE
      LET filter == EqFilter("_id", OidVal(a.ID.oid))
          cmd == Cmd("update", a.db, a.coll, filter, 0, FALSE)
      IN  {Outcome(cmd, NilResult, "StoreError", "none", st)}
          \cup
          IF ~NamespaceOK(a.db, a.coll) THEN {}
          ELSE {Outcome(cmd, CountResult("update", Cardinality(st[a.coll])),
                        "nil", "none",
                        [st EXCEPT ![a.coll] =
                            {SetFields(d, a.patch) : d \in @}])}

Update(a, st) ==
    IF ~a.ID.isOid
    THEN {Outcome(NoCmd, NilResult, "TypeMismatch", "none", st)}
    ELSE
      LET filter == EqFilter("_id", OidVal(a.ID.oid))
          cmd == Cmd("update", a.db, a.coll, filter, 0, FALSE)
      IN  {Outcome(cmd, NilResult, "StoreError", "none", st)}
          \cup
          IF ~NamespaceOK(a.db, a.coll) THEN {}
          ELSE LET hit == {d \in st[a.coll] : Matches(d, filter)}
               IN  {Outcome(cmd, CountResult("update", Cardinality(hit)),
                            "nil", "none",
                            [st EXCEPT ![a.coll] =
                                {IF d \in hit THEN SetFields(d, a.patch)
                                 ELSE d : d \in @}])}

\* Delete with the result of the type assertion ignored: the zero
\* identifier of a failed assertion goes into the filter.
DeleteUnchecked(a, st) ==
    LET filter == EqFilter("_id", OidVal(a.ID.oid))
        cmd == Cmd("delete", a.db, a.coll, filter, 0, FALSE)
    IN  {Outcome(cmd, NilResult, "StoreError", "none", st)}
        \cup
        IF ~NamespaceOK(a.db, a.coll) THEN {}
        ELSE LET hit == {d \in st[a.coll] : Matches(d, filter)}
             IN  {Outcome(cmd, CountResult("delete", Cardinality(hit)),
                          "nil", "none",
                          [st EXCEPT ![a.coll] = @ \ hit])}

\* Delete that treats "nothing deleted" as a failure.
DeleteMissingIsError(a, st) ==
    IF ~a.ID.isOid
    THEN {Outcome(NoCmd, NilResult, "TypeMismatch", "none", st)}
    ELSE
      LET filter == EqFilter("_id", OidVal(a.ID.oid))
          cmd == Cmd("delete", a.db, a.coll, filter, 0, FALSE)
      IN  {Outcome(cmd, NilResult, "StoreError", "none", st)}
          \cup
          IF ~NamespaceOK(a.db, a.coll) THEN {}
          ELSE LET hit == {d \in st[a.coll] : Matches(d, filter)}
               IN  IF hit = {}
                   THEN {Outcome(cmd, NilResult, "NotFound", "none", st)}
                   ELSE {Outcome(cmd, CountResult("delete", Cardinality(hit)),
                                 "nil", "none",
                                 [st EXCEPT ![a.coll] = @ \ hit])}

Delete(a, st) ==
    IF ~a.ID.isOid
    THEN {Outcome(NoCmd, NilResult, "TypeMismatch", "none", st)}
    ELSE
      LET filter == EqFilter("_id", OidVal(a.ID.oid))
          cmd == Cmd("delete", a.db, a.coll, filter, 0, FALSE)
      IN  {Outcome(cmd, NilResult, "StoreError", "none", st)}
          \cup
          IF ~NamespaceOK(a.db, a.coll) THEN {}
          ELSE LET hit == {d \in st[a.coll] : Matches(d, filter)}
               IN  {Outcome(cmd, CountResult("delete", Cardinality(hit)),
                            "nil", "none",
                            [st EXCEPT ![a.coll] = @ \ hit])}

\* {"$lookup": {from, localField, foreignField, as: from}}: the matched
\* document with the correlated documents of the other collection nested.
\* The $lookup stage with localField and foreignField interchanged.
LookupFieldsSwapped(d, a, st) ==
    LET from == IF a.lookupColl \in Collections THEN st[a.lookupColl] ELSE {}
    IN  [_id |-> d._id, name |-> d.name, ref |-> d.ref,
         nested |-> SortAsc({e \in from :
                      FieldValue(e, a.lookupField)
                          = FieldValue(d, a.foreignField)})]

Lookup(d, a, st) ==
    LET from == IF a.lookupColl \in Collections THEN st[a.lookupColl] ELSE {}
    IN  [_id |-> d._id, name |-> d.name, ref |-> d.ref,
         nested |-> SortAsc({e \in from :
                      FieldValue(e, a.foreignField)
                          = FieldValue(d, a.lookupField)})]

MatchAndLookup(a, st) ==
    LET id == ObjectIDFromHex(a.value)
        match == IF a.field = "_id" THEN EqFilter(a.field, OidVal(id.id))
                 ELSE EqFilter(a.field, StrVal(a.value))
        cmd == Cmd("aggregate", a.db, a.coll, match, 0,
                   a.field = "_id" /\ ~id.ok)
    IN  \* Aggregate failed: cur is nil and the deferred cur.Close panics.
        {Outcome(cmd, NilResult, "nil", "NilCursor", st)}
        \cup
        IF ~NamespaceOK(a.db, a.coll) THEN {}
        ELSE LET matched == SortAsc({d \in st[a.coll] : Matches(d, match)})
                 cur == [i \in 1..Len(matched) |-> Lookup(matched[i], a, st)]
             IN  IF DecodeAllOK(cur, a.dataModel)
                 THEN {Outcome(cmd, DocsResult(cur), "nil", "none", st)}
                 ELSE {Outcome(cmd, NilResult, "DecodeError", "none", st)}

Body(op, a, st) ==
    CASE op = "GetALL" -> GetALL(a, st)
      [] op = "GetByField" -> GetByField(a, st)
      [] op = "Create" -> Create(a, st)
      [] op = "Update" -> Update(a, st)
      [] op = "Delete" -> Delete(a, st)
      [] op = "MatchAndLookup" -> MatchAndLookup(a, st)


(***************************************************************************)
(* The arguments callers pass.                                             *)
(***************************************************************************)
RECURSIVE NatToDec(_)
NatToDec(n) ==
    IF n < 10 THEN <<DecDigits[n + 1]>>
    ELSE Append(NatToDec(n \div 10), DecDigits[(n % 10) + 1])

\* Identifier texts: the hex of every identifier, a text of the right
\* length with non-hex characters and a hex text of the wrong length.
BadHexChar == [i \in 1..IdHexLen |-> "g"]
BadHexLen == <<"1">>
IdTexts == {Hex(i) : i \in Ids} \cup {BadHexChar, BadHexLen}
\* Page-size texts: empty, not a number, negative, and 0..MaxPage.
PageSizeTexts ==
    {<<>>, <<"x">>, <<"-", "1">>} \cup {NatToDec(n) : n \in 0..MaxPage}
\* The id argument of Update and Delete: a primitive.ObjectID, or a value
\* of another dynamic type (here the identifier's hex string).
IdArgs ==
    {[isOid |-> TRUE, oid |-> i, raw |-> <<>>] : i \in Ids}
    \cup {[isOid |-> FALSE, oid |-> NilObjectID, raw |-> Hex(1)]}
\* Patches: one field, or both fields, set to new values.
Patches ==
    {[f \in {"name"} |-> v] : v \in Vals}
    \cup {[f \in {"ref"} |-> <<"y">>], [f \in Fields |-> <<"y">>]}

\* GetALL: every lastID and page size on "users" decoded into "Rec", two
\* calls decoded into "Num", and calls with database and collection empty.
GetALLArgs ==
    {[db |-> "db", coll |-> "users", lastID |-> l, pageSize |-> p,
      dataModel |-> "Rec"] : l \in {<<>>} \cup IdTexts, p \in PageSizeTexts}
    \cup
    {[db |-> "db", coll |-> "users", lastID |-> <<>>, pageSize |-> p,
      dataModel |-> "Num"] : p \in {<<>>, NatToDec(1)}}
    \cup
    {[db |-> "", coll |-> "", lastID |-> l, pageSize |-> p,
      dataModel |-> "Rec"] : l \in {<<>>, Hex(1)}, p \in {<<>>, NatToDec(1)}}
\* A lookup by "_id" passes an identifier text, one by "name" a value.
Lookups ==
    {<<"_id", v>> : v \in IdTexts} \cup {<<"name", v>> : v \in Vals}
GetByFieldArgs ==
    {[db |-> "db", coll |-> "users", field |-> l[1], value |-> l[2],
      dataModel |-> t] : l \in Lookups, t \in DataModels}
CreateArgs ==
    {[db |-> "db", coll |-> c, record |-> r] :
        c \in Collections, r \in Records}
UpdateArgs ==
    {[db |-> "db", coll |-> "users", ID |-> i, patch |-> q] :
        i \in IdArgs, q \in Patches}
DeleteArgs ==
    {[db |-> "db", coll |-> c, ID |-> i] : c \in Collections, i \in IdArgs}
MatchAndLookupArgs ==
    {[db |-> "db", coll |-> "users", field |-> l[1], value |-> l[2],
      lookupColl |-> "orders", lookupField |-> "ref",
      foreignField |-> "name", dataModel |-> t] :
        l \in Lookups, t \in DataModels}

ArgsOf(op) ==
    CASE op = "GetALL" -> GetALLArgs
      [] op = "GetByField" -> GetByFieldArgs
      [] op = "Create" -> CreateArgs
      [] op = "Update" -> UpdateArgs
      [] op = "Delete" -> DeleteArgs
      [] op = "MatchAndLookup" -> MatchAndLookupArgs
Ops == {"GetALL", "GetByField", "Create", "Update", "Delete", "MatchAndLookup"}

(***************************************************************************)
(* State.                                                                  *)
(***************************************************************************)
VARIABLES
    store,     \* the documents of each collection
    call,      \* per caller: the public operation in progress, its position,
               \* its session and what it has issued and returned
    created,   \* history: the last successful Create and what it inserted,
               \* until an Update or Delete addresses that document
    pg         \* history: the pagination a client drives over "users"

vars == <<store, call, created, pg>>

\* Caller 1 and one other caller.
Callers == {1, 2}

NoArgs == [db |-> "", coll |-> ""]
IdleCall ==
    [pc |-> "idle", op |-> "none", args |-> NoArgs,
     session |-> "none", txn |-> "none", deferred |-> FALSE,
     opened |-> 0, released |-> 0,
     cmd |-> NoCmd, result |-> NilResult, err |-> "nil", panic |-> "none",
     snap |-> {}]
NoCreated ==
    [valid |-> FALSE, coll |-> "",
     doc |-> [_id |-> NilObjectID, name |-> <<>>, ref |-> <<>>]]
NoPaging ==
    [phase |-> "idle", n |-> 0, last |-> <<>>, pages |-> <<>>, base |-> {}]

Init ==
    /\ store = [c \in Collections |-> {}]
    /\ call = [c \in Callers |-> IdleCall]
    /\ created = NoCreated
    /\ pg = NoPaging

(***************************************************************************)
(* Steps of a public operation.                                            *)
(***************************************************************************)
\* A caller enters a public operation: its first statement is createSession.
Invoke(c, op, a) ==
    /\ call[c].pc = "idle"
    /\ call' = [call EXCEPT ![c] =
                   [IdleCall EXCEPT !.pc = "StartSession", !.op = op,
                                    !.args = a]]

\* createSession, first half: m.Client.StartSession(), panic on error.
StartSession(c) ==
    /\ call[c].pc = "StartSession"
    /\ \/ call' = [call EXCEPT ![c].session = "open", ![c].opened = @ + 1,
                               ![c].pc = "StartTransaction"]
       \/ call' = [call EXCEPT ![c].panic = "SessionError",
                               ![c].pc = "panicked"]
    /\ UNCHANGED <<store, created, pg>>

\* createSession, second half: session.StartTransaction(), panic on error.
\* On success createSession returns and the caller defers EndSession.
StartTransaction(c) ==
    /\ call[c].pc = "StartTransaction"
    /\ \/ call' = [call EXCEPT ![c].txn = "started", ![c].deferred = TRUE,
                               ![c].pc = "body"]
       \/ call' = [call EXCEPT ![c].panic = "TransactionError",
                               ![c].pc = "panicked"]
    /\ UNCHANGED <<store, created, pg>>

\* The operation's body: validation, the closure handed to
\* mongo.WithSession, and the choice of what to return. A write issued
\* with the session context belongs to the session's transaction, which no
\* operation commits: it stays invisible outside the transaction and is
\* discarded when EndSession aborts it. A write issued with any other
\* context is applied to the store at once.
RunBody(c) ==
    /\ call[c].pc = "body"
    /\ \E o \in Body(call[c].op, call[c].args, store) :
          /\ store' = IF o.cmd.ctx = "sc" THEN store ELSE o.store
          /\ call' = [call EXCEPT ![c].cmd = o.cmd, ![c].result = o.result,
                                  ![c].err = o.err, ![c].panic = o.panic,
                                  ![c].snap = o.snap,
                                  ![c].pc = "EndSession"]

Run(c) ==
    /\ RunBody(c)
    /\ UNCHANGED <<created, pg>>

\* The deferred session.EndSession(ctx), run when the operation returns or
\* panics out of its body.
EndSession(c) ==
    /\ call[c].pc = "EndSession"
    /\ call[c].deferred
    /\ call' = [call EXCEPT ![c].session = "ended", ![c].released = @ + 1,
                            ![c].txn = "aborted",
                            ![c].pc = IF call[c].panic # "none"
                                      THEN "panicked" ELSE "returned"]
    /\ UNCHANGED <<store, created, pg>>

\* The caller has taken the result and may call again.
Return(c) ==
    /\ call[c].pc = "returned"
    /\ call' = [call EXCEPT ![c] = IdleCall]
    /\ UNCHANGED <<store, created, pg>>

(***************************************************************************)
(* Spec: one caller invoking any operation with any of the arguments.      *)
(***************************************************************************)
Call(c) ==
    /\ \E op \in Ops : \E a \in ArgsOf(op) : Invoke(c, op, a)
    /\ UNCHANGED <<store, created, pg>>

Next ==
    \/ Call(1)
    \/ StartSession(1)
    \/ StartTransaction(1)
    \/ Run(1)
    \/ EndSession(1)
    \/ Return(1)

Spec == Init /\ [][Next]_vars

(***************************************************************************)
(* SpecRoundTrip: one caller creating, reading by "_id", updating and      *)
(* deleting, with the history of the last successful Create.               *)
(***************************************************************************)
\* The history of the last Create once a body has ended as r.
CreatedAfter(r) ==
    IF r.err # "nil" \/ r.panic # "none" THEN created
    ELSE IF r.op = "Create"
         THEN [valid |-> TRUE, coll |-> r.args.coll,
               doc |-> [_id |-> r.result.id, name |-> r.args.record.name,
                        ref |-> r.args.record.ref]]
    ELSE IF /\ r.op \in {"Update", "Delete"}
            /\ created.valid
            /\ r.args.coll = created.coll
            /\ r.args.ID.oid = created.doc._id
         THEN NoCreated
    ELSE created

RtOps == {"GetByField", "Create", "Update", "Delete"}

\* Reads by "_id" on either collection, decoded into the records' type;
\* the other operations as in Spec.
RtArgsOf(op) ==
    IF op = "GetByField"
    THEN {[db |-> "db", coll |-> c, field |-> "_id", value |-> v,
           dataModel |-> "Rec"] : c \in Collections, v \in IdTexts}
    ELSE ArgsOf(op)

RtCall(c) ==
    /\ \E op \in RtOps : \E a \in RtArgsOf(op) : Invoke(c, op, a)
    /\ UNCHANGED <<store, created, pg>>

RtRun(c) ==
    /\ RunBody(c)
    /\ created' = CreatedAfter(call'[c])
    /\ UNCHANGED pg

NextRoundTrip ==
    \/ RtCall(1)
    \/ StartSession(1)
    \/ StartTransaction(1)
    \/ RtRun(1)
    \/ EndSession(1)
    \/ Return(1)

SpecRoundTrip == Init /\ [][NextRoundTrip]_vars

(***************************************************************************)
(* SpecPage: caller 1 pages through "users" with GetALL, passing the last  *)
(* identifier of each page as the next lastID, until a page comes back     *)
(* empty; caller 2 inserts into "users" at any moment.                     *)
(***************************************************************************)
PageArgs(n, last) ==
    [db |-> "db", coll |-> "users", lastID |-> last,
     pageSize |-> NatToDec(n), dataModel |-> "Rec"]

\* The client starts a pagination with page size n, or asks for the page
\* after the last identifier it has seen.
PagerInvoke ==
    /\ \/ /\ pg.phase = "idle"
          /\ \E n \in 0..MaxPage :
                /\ pg' = [phase |-> "paging", n |-> n, last |-> <<>>,
                          pages |-> <<>>, base |-> IdsOf(store["users"])]
                /\ Invoke(1, "GetALL", PageArgs(n, <<>>))
       \/ /\ pg.phase = "paging"
          /\ Invoke(1, "GetALL", PageArgs(pg.n, pg.last))
          /\ UNCHANGED pg
    /\ UNCHANGED <<store, created>>

\* The identifiers of a returned sequence of documents, in its order.
ResultIds(r) == [i \in 1..Len(r.docs) |-> r.docs[i]._id]

\* The client takes a page: an error ends the pagination, an empty page
\* completes it, anything else is recorded and moves lastID on.
PagerReturn ==
    /\ call[1].pc = "returned"
    /\ pg.phase = "paging"
    /\ LET ids == ResultIds(call[1].result)
       IN  pg' = IF call[1].err # "nil" THEN [pg EXCEPT !.phase = "aborted"]
                 ELSE IF ids = <<>> THEN [pg EXCEPT !.phase = "done"]
                 ELSE [pg EXCEPT
                          !.pages = Append(@, [after |-> pg.last, ids |-> ids,
                                               snap |-> call[1].snap]),
                          !.last = Hex(ids[Len(ids)])]
    /\ call' = [call EXCEPT ![1] = IdleCall]
    /\ UNCHANGED <<store, created>>

\* The other caller inserts a record into "users".
InserterInvoke ==
    /\ Invoke(2, "Create",
              [db |-> "db", coll |-> "users",
               record |-> [name |-> <<"x">>, ref |-> <<"y">>]])
    /\ UNCHANGED <<store, created, pg>>

NextPage ==
    \/ PagerInvoke
    \/ PagerReturn
    \/ InserterInvoke
    \/ Return(2)
    \/ \E c \in Callers : StartSession(c)
    \/ \E c \in Callers : StartTransaction(c)
    \/ \E c \in Callers : Run(c)
    \/ \E c \in Callers : EndSession(c)

SpecPage == Init /\ [][NextPage]_vars

(***************************************************************************)
(* SpecConc: two callers, each invoking any of the six operations on the   *)
(* same client at any moment, the steps of their calls interleaved.        *)
(***************************************************************************)
\* One call of each operation on "users": a first page of one document, a
\* read and a join by name, an insert, and an update and a delete of the
\* first identifier.
ConcArgsOf(op) ==
    CASE op = "GetALL" -> {PageArgs(1, <<>>)}
      [] op = "GetByField" ->
            {a \in GetByFieldArgs :
                a.field = "name" /\ a.value = <<"x">> /\ a.dataModel = "Rec"}
      [] op = "Create" ->
            {a \in CreateArgs :
                a.coll = "users" /\ a.record = [name |-> <<"x">>,
                                                ref |-> <<"y">>]}
      [] op = "Update" ->
            {a \in UpdateArgs :
                /\ a.ID = [isOid |-> TRUE, oid |-> 1, raw |-> <<>>]
                /\ a.patch = [f \in {"ref"} |-> <<"y">>]}
      [] op = "Delete" ->
            {a \in DeleteArgs :
                /\ a.coll = "users"
                /\ a.ID = [isOid |-> TRUE, oid |-> 1, raw |-> <<>>]}
      [] op = "MatchAndLookup" ->
            {a \in MatchAndLookupArgs :
                a.field = "name" /\ a.value = <<"x">> /\ a.dataModel = "Rec"}

ConcCall(c) ==
    /\ \E op \in Ops : \E a \in ConcArgsOf(op) : Invoke(c, op, a)
    /\ UNCHANGED <<store, created, pg>>

NextConc ==
    \/ \E c \in Callers : ConcCall(c)
    \/ \E c \in Callers : StartSession(c)
    \/ \E c \in Callers : StartTransaction(c)
    \/ \E c \in Callers : Run(c)
    \/ \E c \in Callers : EndSession(c)
    \/ \E c \in Callers : Return(c)

SpecConc == Init /\ [][NextConc]_vars

(***************************************************************************)
(* Properties.                                                             *)
(***************************************************************************)
Ended(c) == call[c].pc \in {"returned", "panicked"}
Returned(c) == call[c].pc = "returned"
Range(q) == {q[i] : i \in 1..Len(q)}
StrictlyAscending(q) == \A i \in 1..Len(q) : \A j \in 1..Len(q) : i < j => q[i] < q[j]

\* C1: when a public operation has ended, on whichever exit path (return or
\* panic), every session it opened has been released exactly once.
C1_SessionReleasedExactlyOnce ==
    \A c \in Callers : Ended(c) => call[c].released = call[c].opened

\* C2: in a pagination with page size n the first page holds the first n
\* documents in strictly ascending identifier order, every page is strictly
\* ascending and lies above its lastID, no identifier is returned twice, and
\* a completed pagination has returned every document that was in the
\* collection when it began, whatever other callers insert meanwhile.
C2_PaginationCompleteAndOrdered ==
    LET seen == [k \in 1..Len(pg.pages) |-> Range(pg.pages[k].ids)]
    IN  /\ Len(pg.pages) >= 1 =>
              LET p == pg.pages[1]
              IN  /\ Len(p.ids) = Min(pg.n, Cardinality(p.snap))
                  /\ Range(p.ids) \subseteq p.snap
                  /\ \A i \in Range(p.ids) : \A j \in p.snap \ Range(p.ids) : i < j
        /\ \A k \in 1..Len(pg.pages) :
              /\ StrictlyAscending(pg.pages[k].ids)
              /\ pg.pages[k].after # <<>> =>
                    \A i \in seen[k] : i > ObjectIDFromHex(pg.pages[k].after).id
        /\ \A k \in 1..Len(pg.pages) : \A l \in 1..Len(pg.pages) :
              k # l => seen[k] \cap seen[l] = {}
        /\ pg.phase = "done" => pg.base \subseteq UNION Range(seen)

\* The same for page sizes of at least one.
PaginationWithPositivePageSize ==
    pg.n >= 1 => C2_PaginationCompleteAndOrdered

\* C3: GetByField on "_id" with a text that is no identifier returns
\* InvalidIdentifier and issues no command to the store.
C3_MalformedIdRejectedBeforeStore ==
    \A c \in Callers :
        ( /\ Returned(c)
          /\ call[c].op = "GetByField"
          /\ call[c].args.field = "_id"
          /\ ~ObjectIDFromHex(call[c].args.value).ok )
        => /\ call[c].err = "InvalidIdentifier"
           /\ call[c].cmd.kind = "none"

\* C4: an operation that returns a nil error returns only fully decoded
\* documents: a matched document that does not decode into the target type
\* makes the operation return a non-nil error and a nil result.
C4_DecodeFailurePropagates ==
    \A c \in Callers :
        ( /\ Returned(c)
          /\ call[c].op \in {"GetByField", "GetALL", "MatchAndLookup"}
          /\ call[c].err = "nil" )
        => /\ ~call[c].result.partial
           /\ DecodeAllOK(call[c].result.docs, call[c].args.dataModel)

\* C5: an operation whose session or transaction could not be started ends
\* by returning SessionError or TransactionError to its caller, not by a
\* panic, and has issued no command.
C5_SessionFailureIsReturned ==
    \A c \in Callers :
        (Ended(c) /\ call[c].txn = "none")
        => /\ Returned(c)
           /\ call[c].err \in {"SessionError", "TransactionError"}
           /\ call[c].cmd.kind = "none"

\* C6: GetByField on "_id" with the hex of the identifier the last Create
\* generated, decoded into the record's type, returns the inserted record
\* with a nil error (unless the store fails the find itself), as long as no
\* Update or Delete addressed that document.
C6_CreateThenGetByIdRoundTrip ==
    \A c \in Callers :
        ( /\ Returned(c)
          /\ call[c].op = "GetByField"
          /\ created.valid
          /\ call[c].args.coll = created.coll
          /\ call[c].args.field = "_id"
          /\ call[c].args.value = Hex(created.doc._id)
          /\ call[c].args.dataModel = "Rec"
          /\ call[c].err # "StoreError" )
        => /\ call[c].err = "nil"
           /\ call[c].result = DocResult(created.doc)

C6_Witness ==
    \E c \in Callers :
        /\ Returned(c)
        /\ call[c].op = "GetByField"
        /\ created.valid
        /\ call[c].args.coll = created.coll
        /\ call[c].args.value = Hex(created.doc._id)
        /\ call[c].err = "nil"
        /\ call[c].result = DocResult(created.doc)

\* C7: the body of an Update or Delete whose id argument is not an ObjectID
\* ends with a TypeMismatch error and a nil result, without a panic, having
\* issued no command and changed no collection.
C7_NonIdentifierIsTypeMismatch ==
    [][\A c \in Callers :
          ( /\ call[c].pc = "body"
            /\ call'[c].pc # "body"
            /\ call[c].op \in {"Update", "Delete"}
            /\ ~call[c].args.ID.isOid )
          => /\ store' = store
             /\ call'[c].err = "TypeMismatch"
             /\ call'[c].result = NilResult
             /\ call'[c].panic = "none"
             /\ call'[c].cmd.kind = "none"]_vars

C7_Witness ==
    \E c \in Callers :
        /\ Returned(c)
        /\ call[c].op = "Delete"
        /\ ~call[c].args.ID.isOid
        /\ call[c].err = "TypeMismatch"
        /\ store["users"] # {}

\* C8: GetALL returns at most pageSize documents when the page-size text is
\* a non-negative integer, and returns an error when it is not.
C8_PageSizeBoundsOrRejects ==
    \A c \in Callers :
        (Returned(c) /\ call[c].op = "GetALL")
        => LET p == ParseInt(call[c].args.pageSize)
           IN  IF p.ok /\ p.n >= 0
               THEN call[c].err = "nil" => Len(call[c].result.docs) <= p.n
               ELSE call[c].err # "nil"

\* C9: GetALL with database, collection, lastID and pageSize all empty
\* returns a validation error, having started no session and no
\* transaction and issued no find.
C9_ValidationBeforeStoreAccess ==
    \A c \in Callers :
        ( /\ Returned(c)
          /\ call[c].op = "GetALL"
          /\ call[c].args.db = "" /\ call[c].args.coll = ""
          /\ call[c].args.lastID = <<>> /\ call[c].args.pageSize = <<>> )
        => /\ call[c].err = "ValidationError"
           /\ call[c].opened = 0
           /\ call[c].txn = "none"
           /\ call[c].cmd.kind = "none"

\* C10: no find or aggregate is issued with the zero identifier of a failed
\* decode in its filter; the operation returns an error instead.
C10_FailedDecodeShortCircuits ==
    \A c \in Callers :
        /\ ~(call[c].cmd.kind \in {"find", "aggregate"} /\ call[c].cmd.idFailed)
        /\ ( /\ Returned(c)
             /\ \/ call[c].op = "GetALL"
                   /\ call[c].args.lastID # <<>>
                   /\ ~ObjectIDFromHex(call[c].args.lastID).ok
                \/ call[c].op = "MatchAndLookup"
                   /\ call[c].args.field = "_id"
                   /\ ~ObjectIDFromHex(call[c].args.value).ok )
           => call[c].err # "nil"

\* The body of caller c's operation op ends in this step.
BodyEnds(c, op) ==
    /\ call[c].pc = "body"
    /\ call'[c].pc # "body"
    /\ call[c].op = op

\* C11: a Delete with an ObjectID that addresses no document of the
\* collection, unless the store fails the command, returns a nil error and
\* a deleted count of zero and changes nothing; and a Delete that succeeds
\* leaves no document with that identifier, so that a second Delete of it
\* is such a call.
C11_DeleteOfMissingIsZeroCountSuccess ==
    [][\A c \in Callers :
          ( /\ BodyEnds(c, "Delete")
            /\ call[c].args.ID.isOid
            /\ call'[c].err # "StoreError" )
          => LET id == call[c].args.ID.oid
                 coll == call[c].args.coll
             IN  /\ call'[c].err = "nil"
                 /\ call'[c].panic = "none"
                 /\ id \notin IdsOf(store'[coll])
                 /\ id \notin IdsOf(store[coll]) =>
                       /\ call'[c].result = CountResult("delete", 0)
                       /\ store' = store]_vars

C11_Witness ==
    \E c \in Callers :
        /\ Returned(c)
        /\ call[c].op = "Delete"
        /\ call[c].args.ID.isOid
        /\ call[c].err = "nil"
        /\ call[c].result = CountResult("delete", 0)
        /\ store[call[c].args.coll] # {}

\* C12: an Update that returns a nil error sets, in the document with the
\* given identifier, exactly the patch's fields to the patch's values, keeps
\* that document's other fields, keeps every other document of the
\* collection and every other collection, and adds or removes no document.
C12_UpdateMergesPatch ==
    [][\A c \in Callers :
          ( /\ BodyEnds(c, "Update")
            /\ call'[c].err = "nil"
            /\ call'[c].panic = "none" )
          => LET id == call[c].args.ID.oid
                 coll == call[c].args.coll
                 patch == call[c].args.patch
             IN  /\ \A k \in Collections \ {coll} : store'[k] = store[k]
                 /\ IdsOf(store'[coll]) = IdsOf(store[coll])
                 /\ Cardinality(store'[coll]) = Cardinality(store[coll])
                 /\ \A d \in store[coll] :
                       IF d._id = id
                       THEN \E e \in store'[coll] :
                               /\ e._id = id
                               /\ \A f \in Fields :
                                     e[f] = IF f \in DOMAIN patch
                                            THEN patch[f] ELSE d[f]
                       ELSE d \in store'[coll]]_vars

\* An Update has returned success having changed one field of a document
\* that has a sibling in the collection.
C12_Witness ==
    \E c \in Callers :
        /\ Returned(c)
        /\ call[c].op = "Update"
        /\ call[c].err = "nil"
        /\ call[c].result = CountResult("update", 1)
        /\ DOMAIN call[c].args.patch = {"name"}
        /\ Cardinality(store[call[c].args.coll]) >= 2
        /\ \E d \in store[call[c].args.coll] :
              /\ d._id = call[c].args.ID.oid
              /\ d.name # d.ref

\* The documents of collection coll whose field equals the text value:
\* a document's "_id" equals it when the text is that identifier's hex.
DocsWhere(coll, field, value) ==
    {d \in store[coll] :
        IF field = "_id" THEN Hex(d._id) = value ELSE d[field] = value}

\* C13: a MatchAndLookup that decodes into the documents' type and whose
\* aggregate the store does not fail returns a nil error and exactly the
\* documents of the match collection whose match field equals the match
\* value, once each, each with the nested sequence of exactly the documents
\* of the lookup collection whose foreign field equals its lookup field,
\* once each: an empty sequence when there is none.
C13_MatchAndLookupJoins ==
    \A c \in Callers :
        ( /\ Ended(c)
          /\ call[c].op = "MatchAndLookup"
          /\ call[c].cmd.kind = "aggregate"
          /\ call[c].args.dataModel = "Rec"
          /\ call[c].panic # "NilCursor" )
        => LET a == call[c].args
               out == call[c].result.docs
               want == DocsWhere(a.coll, a.field, a.value)
           IN  /\ Returned(c)
               /\ call[c].err = "nil"
               /\ call[c].result.kind = "docs"
               /\ Len(out) = Cardinality(want)
               /\ {[_id |-> r._id, name |-> r.name, ref |-> r.ref] :
                      r \in Range(out)} = want
               /\ \A r \in Range(out) :
                     /\ Len(r.nested) = Cardinality(Range(r.nested))
                     /\ Range(r.nested) =
                           {e \in store[a.lookupColl] :
                               e[a.foreignField] = r[a.lookupField]}

\* A join has returned a matched document that has no correlated document
\* although the lookup collection is not empty.
C13_Witness ==
    \E c \in Callers :
        /\ Returned(c)
        /\ call[c].op = "MatchAndLookup"
        /\ call[c].err = "nil"
        /\ store[call[c].args.lookupColl] # {}
        /\ \E i \in 1..Len(call[c].result.docs) :
              call[c].result.docs[i].nested = <<>>

\* A call is in flight from its entry until it has returned or panicked.
InFlight(c) ==
    call[c].pc \in {"StartSession", "StartTransaction", "body", "EndSession"}
OpenSessions == {c \in Callers : call[c].session = "open"}

\* C14: under any interleaving of two callers' calls, a call opens at most
\* one session, a command is only issued by a call holding its own open
\* session, the number of open sessions never exceeds the number of calls
\* in flight, and when no call is in flight no session is open.
C14_OpenSessionsBoundedByCallsInFlight ==
    /\ \A c \in Callers : call[c].opened <= 1
    /\ \A c \in Callers : call[c].pc = "body" => call[c].session = "open"
    /\ Cardinality(OpenSessions)
          <= Cardinality({c \in Callers : InFlight(c)})
    /\ (\A c \in Callers : ~InFlight(c)) => OpenSessions = {}

\* C15: a GetByField that has returned gave NotFound with a nil result
\* whenever no document of the collection has the field equal to the value
\* and the store answered, gives NotFound only then, and gave an instance
\* only when some document has the field equal to the value; a fully
\* decoded instance is one of those documents.
C15_GetByFieldNotFoundOnNoMatch ==
    \A c \in Callers :
        (Returned(c) /\ call[c].op = "GetByField")
        => LET a == call[c].args
               want == DocsWhere(a.coll, a.field, a.value)
           IN  /\ (want = {} /\ call[c].err # "StoreError")
                     => call[c].err = "NotFound"
               /\ call[c].err = "NotFound"
                     => want = {} /\ call[c].result = NilResult
               /\ call[c].result.kind # "nil" => want # {}
               /\ \A i \in 1..Len(call[c].result.docs) :
                     call[c].result.docs[i] \in want

\* A lookup has come back NotFound from a collection that holds documents.
C15_Witness ==
    \E c \in Callers :
        /\ Returned(c)
        /\ call[c].op = "GetByField"
        /\ call[c].err = "NotFound"
        /\ call[c].result = NilResult
        /\ store[call[c].args.coll] # {}

\* C16: a call that has issued a store command ends by returning: it does
\* not panic, whether the command succeeded or failed; an insert, update or
\* delete the store failed comes back as that error with a nil result and
\* the store untouched by it.
C16_StoreFailureIsReturned ==
    \A c \in Callers :
        (Ended(c) /\ call[c].cmd.kind # "none")
        => /\ call[c].panic = "none"
           /\ Returned(c)
           /\ call[c].err = "StoreError" => call[c].result = NilResult

\* C17: every store command a call has issued was issued with the session
\* context of the session that call opened.
C17_CommandsRunInSessionContext ==
    \A c \in Callers : call[c].cmd.kind # "none" => call[c].cmd.ctx = "sc"

\* C18: once a Create, Update or Delete has released its session and
\* returned success, its effect is in the store: the inserted document
\* under the returned identifier, the patched fields on the updated
\* document, and no document under the deleted identifier.
C18_SuccessfulWritePersists ==
    \A c \in Callers :
        (Returned(c) /\ call[c].err = "nil" /\ call[c].released = 1)
        => LET a == call[c].args
               r == call[c].result
           IN  /\ call[c].op = "Create" =>
                     [_id |-> r.id, name |-> a.record.name,
                      ref |-> a.record.ref] \in store[a.coll]
               /\ (call[c].op = "Update" /\ r.n = 1) =>
                     \E d \in store[a.coll] :
                        /\ d._id = a.ID.oid
                        /\ \A f \in DOMAIN a.patch : d[f] = a.patch[f]
               /\ call[c].op = "Delete" =>
                     a.ID.oid \notin IdsOf(store[a.coll])

\* A Delete that removed a document has returned, its session ended and
\* its transaction aborted, and the collection is now empty.
C18_Witness ==
    \E c \in Callers :
        /\ Returned(c)
        /\ call[c].op = "Delete"
        /\ call[c].err = "nil"
        /\ call[c].result = CountResult("delete", 1)
        /\ call[c].session = "ended"
        /\ call[c].txn = "aborted"
        /\ store[call[c].args.coll] = {}

\* C19: an operation that has returned gave either a nil result with an
\* error or a result with a nil error: an error never comes with a result,
\* filled or partly filled, and a nil error never comes with a nil result.
C19_ResultXorError ==
    \A c \in Callers :
        Returned(c)
        => /\ call[c].err = "nil" <=> call[c].result.kind # "nil"
           /\ call[c].err # "nil" => call[c].result = NilResult

\* An insert the store failed has returned its error with a nil result.
C19_Witness ==
    \E c \in Callers :
        /\ Returned(c)
        /\ call[c].op = "Create"
        /\ call[c].cmd.kind = "insert"
        /\ call[c].err = "StoreError"
        /\ call[c].result = NilResult

=============================================================================
